---- MODULE Spec2Model ----
(***************************************************************************)
(* Model of CSC314_2023_Fall_PorsheEismann_PlayfairCypher.py: the three    *)
(* cipher classes PlayfairCipher, RailFence and Substitution.              *)
(*                                                                         *)
(* A Python str is a sequence of code points (integers).  A raised         *)
(* exception is an outcome record with ok = FALSE and the exception's      *)
(* class name in err.                                                      *)
(***************************************************************************)
EXTENDS Integers, Sequences, FiniteSets, TLC

VARIABLES alg, key, rails, text, mode, inst, out, back, pc

vars == <<alg, key, rails, text, mode, inst, out, back, pc>>

\* ------------------------------------------------------------------ bounds
MaxKeyLen == 2
MaxTextLen == 3
MaxRails == 3
MaxRailLen == 4

\* --------------------------------------------------------- Python strings
\* Code points of the characters the model uses: ' ' 32, '1' 49, 'A'..'Z'
\* 65..90, 'a'..'z' 97..122, and the Hebrew letters U+05D0..U+05EA
\* (1488..1514), which are alphabetic and have no case.
LowerLetters == 97..122
UpperLetters == 65..90
CaselessLetters == 1488..1514

\* str.isalpha() of one character
IsAlpha(c) == c \in LowerLetters \/ c \in UpperLetters \/ c \in CaselessLetters

\* str.upper() / str.lower() of one character
UpperChar(c) == IF c \in LowerLetters THEN c - 32 ELSE c
LowerChar(c) == IF c \in UpperLetters THEN c + 32 ELSE c

\* str.upper() / str.lower()
Upper(s) == [i \in 1..Len(s) |-> UpperChar(s[i])]
Lower(s) == [i \in 1..Len(s) |-> LowerChar(s[i])]

\* set(s): the distinct characters of s
CharSet(s) == {s[i] : i \in 1..Len(s)}

\* ch in s, for a one-character ch
Contains(s, c) == \E i \in 1..Len(s) : s[i] = c

\* the value None
None == -1

\* s.index(c): 0-based position of the first occurrence; None stands for the
\* ValueError("substring not found") the call raises, tested by the callers
Index(s, c) ==
  IF Contains(s, c)
  THEN (CHOOSE i \in 1..Len(s) : s[i] = c /\ \A j \in 1..(i-1) : s[j] # c) - 1
  ELSE None

\* sorted(S, key=lambda x: s.index(x)) for a set S whose members all occur in
\* s: distinct members have distinct keys, so the result is the members of S
\* in the order of their first occurrences in s
SortedByIndex(S, s) ==
  LET firsts == SelectSeq([i \in 1..Len(s) |-> i],
                          LAMBDA i : s[i] \in S /\ Index(s, s[i]) = i - 1)
  IN  [k \in 1..Len(firsts) |-> s[firsts[k]]]

\* outcomes of a call: a returned str, or a raised exception
Ok(v) == [ok |-> TRUE, val |-> v, err |-> ""]
Err(e) == [ok |-> FALSE, val |-> <<>>, err |-> e]
NoOut == [ok |-> FALSE, val |-> <<>>, err |-> "not called"]

\* list/str indexing seq[i] with Python's negative indices
PyIndexOK(i, n) == -n <= i /\ i < n
PyPos(i, n) == IF i < 0 THEN i + n + 1 ELSE i + 1

\* ----------------------------------------------------------- instances
\* an instance, or the exception its constructor raised
NoInst == [status |-> "none", err |-> "", key |-> <<>>, key_matrix |-> <<>>,
           alphabet |-> <<>>, rails |-> 0]
FailedInst(e) == [NoInst EXCEPT !.status = "error", !.err = e]

\* ------------------------------------------------------- PlayfairCipher
\* "ABCDEFGHIKLMNOPQRSTUVWXYZ"
PlayfairAlphabet == [i \in 1..25 |-> IF i <= 9 THEN 64 + i ELSE 65 + i]

\* [s[i:i + 5] for i in range(0, len(s), 5)]
Chunks(s) ==
  [r \in 1..((Len(s) + 4) \div 5) |->
     SubSeq(s, 5 * (r - 1) + 1, IF 5 * r <= Len(s) THEN 5 * r ELSE Len(s))]

\* PlayfairCipher.__init__(key)
PlayfairInit(k) ==
  LET S == CharSet(Upper(k))
      lo == Lower(k)
  IN  IF \E x \in S : Index(lo, x) = None
      THEN FailedInst("ValueError")
      ELSE LET dk == SortedByIndex(S, lo)
           IN  [NoInst EXCEPT !.status = "ok", !.key = dk,
                              !.key_matrix = Chunks(dk),
                              !.alphabet = PlayfairAlphabet]

\* mutant: a character missing from the matrix is reported at (0, 0)
FindPositionsDefault(m, c) ==
  IF \E r \in 1..Len(m) : Contains(m[r], c)
  THEN LET r == CHOOSE r \in 1..Len(m) :
                  Contains(m[r], c) /\ \A q \in 1..(r-1) : ~Contains(m[q], c)
       IN  <<r - 1, Index(m[r], c)>>
  ELSE <<0, 0>>

\* PlayfairCipher.find_positions(char): (row, col) of the first row holding
\* char, (None, None) when no row does
FindPositions(m, c) ==
  IF \E r \in 1..Len(m) : Contains(m[r], c)
  THEN LET r == CHOOSE r \in 1..Len(m) :
                  Contains(m[r], c) /\ \A q \in 1..(r-1) : ~Contains(m[q], c)
       IN  <<r - 1, Index(m[r], c)>>
  ELSE <<None, None>>

\* 'X'
PadChar == 88

\* PlayfairCipher.process_text(text)
ProcessText(t) ==
  LET letters == Upper(SelectSeq(t, IsAlpha))
  IN  IF Len(letters) % 2 = 1 THEN Append(letters, PadChar) ELSE letters

\* key_matrix[row][col]: TypeError for a None index, IndexError out of range
Cell(m, row, col) ==
  IF row = None THEN Err("TypeError")
  ELSE IF ~PyIndexOK(row, Len(m)) THEN Err("IndexError")
  ELSE IF col = None THEN Err("TypeError")
  ELSE IF ~PyIndexOK(col, Len(m[PyPos(row, Len(m))])) THEN Err("IndexError")
  ELSE Ok(<<m[PyPos(row, Len(m))][PyPos(col, Len(m[PyPos(row, Len(m))]))]>>)

\* key_matrix[row1][col1] + key_matrix[row2][col2], left operand first
Cells(m, row1, col1, row2, col2) ==
  LET a == Cell(m, row1, col1)
      b == Cell(m, row2, col2)
  IN  IF ~a.ok THEN a ELSE IF ~b.ok THEN b ELSE Ok(a.val \o b.val)

\* mutant: decryption shifts left / up instead of right / down
TransformPairInverse(m, c1, c2, md) ==
  LET p1 == FindPositions(m, c1)
      p2 == FindPositions(m, c2)
      s == IF md = "encrypt" THEN 1 ELSE 4
  IN  IF p1[1] = p2[1]
      THEN IF p1[2] = None \/ p2[2] = None THEN Err("TypeError")
           ELSE Cells(m, p1[1], (p1[2] + s) % 5, p2[1], (p2[2] + s) % 5)
      ELSE IF p1[2] = p2[2]
      THEN IF p1[1] = None \/ p2[1] = None THEN Err("TypeError")
           ELSE Cells(m, (p1[1] + s) % 5, p1[2], (p2[1] + s) % 5, p2[2])
      ELSE Cells(m, p1[1], p2[2], p2[1], p1[2])

\* the body of transform's loop for the pair (char1, char2)
TransformPair(m, c1, c2, md) ==
  LET p1 == FindPositions(m, c1)
      p2 == FindPositions(m, c2)
  IN  IF p1[1] = p2[1]
      THEN IF p1[2] = None \/ p2[2] = None THEN Err("TypeError")
           ELSE IF md = "encrypt"
                THEN Cells(m, p1[1], (p1[2] + 1) % 5, p2[1], (p2[2] + 1) % 5)
                ELSE Cells(m, p1[1], (p1[2] + 1) % 5, p2[1], (p2[2] + 1) % 5)
      ELSE IF p1[2] = p2[2]
      THEN IF p1[1] = None \/ p2[1] = None THEN Err("TypeError")
           ELSE IF md = "encrypt"
                THEN Cells(m, (p1[1] + 1) % 5, p1[2], (p2[1] + 1) % 5, p2[2])
                ELSE Cells(m, (p1[1] + 1) % 5, p1[2], (p2[1] + 1) % 5, p2[2])
      ELSE IF md = "encrypt"
           THEN Cells(m, p1[1], p2[2], p2[1], p1[2])
           ELSE Cells(m, p1[1], p2[2], p2[1], p1[2])

\* for i in range(0, len(text), 2): ... result += ...
RECURSIVE TransformLoop(_, _, _, _, _)
TransformLoop(m, t, i, md, result) ==
  IF i > Len(t) THEN Ok(result)
  ELSE LET pr == TransformPair(m, t[i], t[i + 1], md)
       IN  IF ~pr.ok THEN pr
           ELSE TransformLoop(m, t, i + 2, md, result \o pr.val)

\* PlayfairCipher.transform(text, mode)
PlayfairTransform(self, t, md) ==
  TransformLoop(self.key_matrix, ProcessText(t), 1, md, <<>>)

\* ------------------------------------------------------------ RailFence
\* RailFence.__init__(rails): stores rails, checks nothing
RailFenceInit(r) == [NoInst EXCEPT !.status = "ok", !.rails = r]

\* ' '
Blank == 32

\* [[' ' for _ in s] for _ in range(rails)]; range(n) is empty for n <= 0
NewFence(s, r) ==
  [i \in 1..(IF r > 0 THEN r ELSE 0) |-> [j \in 1..Len(s) |-> Blank]]

\* ''.join([''.join(row) for row in fence])
RECURSIVE JoinRows(_)
JoinRows(fence) ==
  IF fence = <<>> THEN <<>> ELSE Head(fence) \o JoinRows(Tail(fence))

\* rail += direction; if rail == self.rails - 1 or rail == 0: direction *= -1
NextDirection(rail2, direction, r) ==
  IF rail2 = r - 1 \/ rail2 = 0 THEN direction * (-1) ELSE direction

\* the loop of encrypt: for char in plaintext: fence[rail][...] = char; ...
RECURSIVE EncryptLoop(_, _, _, _, _, _)
EncryptLoop(plaintext, i, fence, rail, direction, r) ==
  IF i > Len(plaintext) THEN Ok(JoinRows(fence))
  ELSE IF ~PyIndexOK(rail, Len(fence)) THEN Err("IndexError")
  ELSE LET row == PyPos(rail, Len(fence))
           col == Len(fence[row]) - Len(plaintext)
           rail2 == rail + direction
       IN  IF ~PyIndexOK(col, Len(fence[row])) THEN Err("IndexError")
           ELSE EncryptLoop(plaintext, i + 1,
                  [fence EXCEPT ![row][PyPos(col, Len(fence[row]))] = plaintext[i]],
                  rail2, NextDirection(rail2, direction, r), r)

\* RailFence.encrypt(plaintext)
RailFenceEncrypt(self, plaintext) ==
  EncryptLoop(plaintext, 1, NewFence(plaintext, self.rails), 0, 1, self.rails)

\* the loop of decrypt: plaintext += fence[rail][0]; ...; fence[rail][0] = ' '
RECURSIVE DecryptLoop(_, _, _, _, _, _, _)
DecryptLoop(n, i, fence, rail, direction, plaintext, r) ==
  IF i > n THEN Ok(plaintext)
  ELSE IF ~PyIndexOK(rail, Len(fence)) THEN Err("IndexError")
  ELSE LET row == PyPos(rail, Len(fence))
           rail2 == rail + direction
       IN  IF ~PyIndexOK(0, Len(fence[row])) THEN Err("IndexError")
           ELSE IF ~PyIndexOK(rail2, Len(fence)) THEN Err("IndexError")
           ELSE LET row2 == PyPos(rail2, Len(fence))
                IN  IF ~PyIndexOK(0, Len(fence[row2])) THEN Err("IndexError")
                    ELSE DecryptLoop(n, i + 1,
                           [fence EXCEPT ![row2][1] = Blank],
                           rail2, NextDirection(rail2, direction, r),
                           Append(plaintext, fence[row][1]), r)

\* RailFence.decrypt(ciphertext); range(len(fence[0])) raises IndexError
\* when the fence has no row
RailFenceDecrypt(self, ciphertext) ==
  LET fence == NewFence(ciphertext, self.rails)
  IN  IF ~PyIndexOK(0, Len(fence)) THEN Err("IndexError")
      ELSE DecryptLoop(Len(fence[1]), 1, fence, 0, 1, <<>>, self.rails)

\* --------------------------------------------------------- Substitution
\* "abcdefghijklmnopqrstuvwxyz"
SubstitutionAlphabet == [i \in 1..26 |-> 96 + i]

\* s.replace(" ", "")
RemoveSpaces(s) == SelectSeq(s, LAMBDA c : c # Blank)

\* Substitution.__init__(password)
SubstitutionInit(password) ==
  LET lo == Lower(password)
      S == CharSet(RemoveSpaces(lo))
  IN  IF \E x \in S : Index(lo, x) = None
      THEN FailedInst("ValueError")
      ELSE [NoInst EXCEPT
              !.status = "ok",
              !.alphabet = SubstitutionAlphabet,
              !.key = SortedByIndex(S, lo) \o
                      SelectSeq(SubstitutionAlphabet,
                                LAMBDA ch : ~Contains(password, ch))]

\* self.key[self.alphabet.index(ch)] if ch in self.alphabet else ch
SubstituteChar(self, ch) ==
  IF Contains(self.alphabet, ch)
  THEN LET p == Index(self.alphabet, ch)
       IN  IF PyIndexOK(p, Len(self.key))
           THEN Ok(<<self.key[PyPos(p, Len(self.key))]>>)
           ELSE Err("IndexError")
  ELSE Ok(<<ch>>)

\* mutant: decryption looks the character up in the key and answers with the
\* alphabet's character at that position
RECURSIVE SubstitutionLoopInverse(_, _, _, _, _)
SubstitutionLoopInverse(self, t, i, md, result) ==
  IF i > Len(t) THEN Ok(result)
  ELSE LET c == IF md = "encrypt" THEN SubstituteChar(self, t[i])
                ELSE IF Contains(self.key, t[i])
                     /\ Index(self.key, t[i]) < Len(self.alphabet)
                THEN Ok(<<self.alphabet[Index(self.key, t[i]) + 1]>>)
                ELSE Ok(<<t[i]>>)
       IN  IF ~c.ok THEN c
           ELSE SubstitutionLoopInverse(self, t, i + 1, md, result \o c.val)

\* for ch in text: result += ...; mode is not read
RECURSIVE SubstitutionLoop(_, _, _, _, _)
SubstitutionLoop(self, t, i, md, result) ==
  IF i > Len(t) THEN Ok(result)
  ELSE LET c == SubstituteChar(self, t[i])
       IN  IF ~c.ok THEN c
           ELSE SubstitutionLoop(self, t, i + 1, md, result \o c.val)

\* Substitution.transform(text, mode)
SubstitutionTransform(self, t, md) == SubstitutionLoop(self, t, 1, md, <<>>)

\* --------------------------------------------------------------- inputs
\* all sequences over S of length at most n
SeqsUpTo(S, n) == UNION {[1..k -> S] : k \in 0..n}

Modes == {"encrypt", "decrypt"}

\* Playfair keys: 'a', '1' and two caseless letters; and two keys of 25
\* distinct caseless letters, which fill a 5x5 matrix
PlayfairKeyChars == {97, 49, 1488, 1489}
FullKey == [i \in 1..25 |-> 1487 + i]
FullKeyReversed == [i \in 1..25 |-> 1513 - i]
PlayfairTextChars == {97, 49, 1488, 1489}
CornerChars == {1488, 1492, 1512}

\* Substitution passwords and texts: 'a', 'z', 'A', '1', ' '
PasswordChars == {122, 65, 49, 32}
SubstitutionTextChars == {97, 122, 65, 32}

\* Rail Fence texts: 'H', 'e', ' '
RailTextChars == {72, 101, 32}

InitPlayfairShort ==
  /\ alg = "Playfair"
  /\ key \in SeqsUpTo(PlayfairKeyChars, MaxKeyLen)
  /\ text \in SeqsUpTo(PlayfairTextChars, MaxTextLen)
  /\ mode \in Modes
  /\ rails = 2

InitPlayfairFull ==
  /\ alg = "Playfair"
  /\ key \in {FullKey, FullKeyReversed}
  /\ text \in SeqsUpTo(CaselessLetters \cup {97}, 2)
               \cup SeqsUpTo(CornerChars, MaxTextLen + 1)
  /\ mode \in Modes
  /\ rails = 2

InitSubstitution ==
  /\ alg = "Substitution"
  /\ key \in SeqsUpTo(PasswordChars, MaxKeyLen)
  /\ text \in SeqsUpTo(SubstitutionTextChars, MaxTextLen)
  /\ mode \in Modes
  /\ rails = 2

InitRailFence ==
  /\ alg = "RailFence"
  /\ key = <<>>
  /\ text \in SeqsUpTo(RailTextChars, MaxRailLen)
  /\ mode \in Modes
  /\ rails \in 0..MaxRails

\* the caller's (algorithm, key, text, mode) before any instance exists
Init ==
  /\ InitPlayfairShort \/ InitPlayfairFull \/ InitSubstitution \/ InitRailFence
  /\ inst = NoInst
  /\ out = NoOut
  /\ back = NoOut
  /\ pc = "new"

\* -------------------------------------------------------------- actions
\* cipher = PlayfairCipher(key)
ConstructPlayfair ==
  /\ pc = "new" /\ alg = "Playfair"
  /\ inst' = PlayfairInit(key)
  /\ pc' = IF inst'.status = "ok" THEN "built" ELSE "failed"
  /\ UNCHANGED <<alg, key, rails, text, mode, out, back>>

\* cipher = RailFence(rails)
ConstructRailFence ==
  /\ pc = "new" /\ alg = "RailFence"
  /\ inst' = RailFenceInit(rails)
  /\ pc' = IF inst'.status = "ok" THEN "built" ELSE "failed"
  /\ UNCHANGED <<alg, key, rails, text, mode, out, back>>

\* cipher = Substitution(key)
ConstructSubstitution ==
  /\ pc = "new" /\ alg = "Substitution"
  /\ inst' = SubstitutionInit(key)
  /\ pc' = IF inst'.status = "ok" THEN "built" ELSE "failed"
  /\ UNCHANGED <<alg, key, rails, text, mode, out, back>>

\* result = cipher.transform(text, mode), cipher a PlayfairCipher
DoPlayfairTransform ==
  /\ pc = "built" /\ alg = "Playfair"
  /\ out' = PlayfairTransform(inst, text, mode)
  /\ pc' = "transformed"
  /\ UNCHANGED <<alg, key, rails, text, mode, inst, back>>

\* result = cipher.transform(text, mode), cipher a Substitution
DoSubstitutionTransform ==
  /\ pc = "built" /\ alg = "Substitution"
  /\ out' = SubstitutionTransform(inst, text, mode)
  /\ pc' = "transformed"
  /\ UNCHANGED <<alg, key, rails, text, mode, inst, back>>

\* result = cipher.encrypt(text)
DoRailFenceEncrypt ==
  /\ pc = "built" /\ alg = "RailFence"
  /\ out' = RailFenceEncrypt(inst, text)
  /\ pc' = "encrypted"
  /\ UNCHANGED <<alg, key, rails, text, mode, inst, back>>

\* result = cipher.decrypt(text)
DoRailFenceDecrypt ==
  /\ pc = "built" /\ alg = "RailFence"
  /\ out' = RailFenceDecrypt(inst, text)
  /\ pc' = "decrypted"
  /\ UNCHANGED <<alg, key, rails, text, mode, inst, back>>

\* cipher.decrypt(cipher.encrypt(text)), once encrypt has returned
DoRailFenceDecryptBack ==
  /\ pc = "encrypted" /\ out.ok
  /\ back' = RailFenceDecrypt(inst, out.val)
  /\ pc' = "roundtrip"
  /\ UNCHANGED <<alg, key, rails, text, mode, inst, out>>

Next ==
  \/ ConstructPlayfair
  \/ ConstructRailFence
  \/ ConstructSubstitution
  \/ DoPlayfairTransform
  \/ DoSubstitutionTransform
  \/ DoRailFenceEncrypt
  \/ DoRailFenceDecrypt
  \/ DoRailFenceDecryptBack

Spec == Init /\ [][Next]_vars

\* ---------------------------------------------------------------- claims
Matrix == inst.key_matrix
Processed == ProcessText(text)
IsFiveByFive(m) == Len(m) = 5 /\ \A r \in 1..5 : Len(m[r]) = 5
InMatrix(m, c) == \E r \in 1..Len(m) : \E k \in 1..Len(m[r]) : m[r][k] = c
Cells25(m) == {m[r][k] : r \in 1..5, k \in 1..5}
NoLetter(s) == \A i \in 1..Len(s) : ~IsAlpha(s[i])

\* rail (0-based) of the 0-based position i on the zigzag over R >= 2 rails
RailOf(i, R) ==
  LET m == i % (2 * (R - 1)) IN IF m < R THEN m ELSE 2 * (R - 1) - m

\* the characters of t written on rail r, in text order
OnRail(t, r, R) ==
  LET at == SelectSeq([i \in 1..Len(t) |-> i], LAMBDA i : RailOf(i - 1, R) = r)
  IN  [k \in 1..Len(at) |-> t[at[k]]]

\* rail 0, then rail 1, ..., then rail R-1
ZigzagRead(t, R) == JoinRows([r \in 1..R |-> OnRail(t, r - 1, R)])

\* C1: Rail Fence round trip: for a non-empty text x and 2 <= R <= len(x),
\* RailFence(R).decrypt(RailFence(R).encrypt(x)) returns x.
C1_RailFenceRoundTrip ==
  (pc = "roundtrip" /\ Len(text) >= 1 /\ 2 <= rails /\ rails <= Len(text))
    => back = Ok(text)

\* C2: for every non-empty password the key derived by Substitution.__init__
\* is a permutation of the 26 lowercase letters: 26 characters, each of a-z
\* once, nothing else.
C2_SubstitutionKeyIsPermutation ==
  (alg = "Substitution" /\ pc # "new" /\ Len(key) >= 1)
    => /\ inst.status = "ok"
       /\ Len(inst.key) = 26
       /\ CharSet(inst.key) = LowerLetters

\* C3: for every key PlayfairCipher.__init__ accepts, the key matrix is 5 rows
\* of 5 cells holding each letter of ABCDEFGHIKLMNOPQRSTUVWXYZ exactly once.
C3_PlayfairMatrixComplete ==
  (alg = "Playfair" /\ inst.status = "ok")
    => /\ IsFiveByFive(Matrix)
       /\ Cells25(Matrix) = CharSet(PlayfairAlphabet)

\* C4: key derivation is total: for every non-empty key, PlayfairCipher(key)
\* and Substitution(key) are constructed without an exception.
C4_KeyDerivationTotal ==
  (alg \in {"Playfair", "Substitution"} /\ pc # "new" /\ Len(key) >= 1)
    => inst.status = "ok"

\* C5: RailFence(R).encrypt(text) returns exactly the characters of text, each
\* position once, read rail by rail along the zigzag (for R = 2: the even
\* positions, then the odd positions); nothing is inserted or dropped.
C5_RailFenceEncryptZigzag ==
  (pc = "encrypted" /\ rails >= 2)
    => /\ out.ok
       /\ Len(out.val) = Len(text)
       /\ out.val = ZigzagRead(text, rails)

C7_EmptyTextEmptyOutput ==
  /\ (/\ inst.status = "ok"
      /\ pc \in {"transformed", "encrypted", "decrypted"}
      /\ (text = <<>> \/ (alg = "Playfair" /\ NoLetter(text))))
       => out = Ok(<<>>)
  /\ (pc = "roundtrip" /\ text = <<>>) => back = Ok(<<>>)

\* C8: when PlayfairCipher.transform meets a pair with a character that is
\* not in the key matrix, the call ends in an exception; it returns no string.
C8_InvalidCharacterFails ==
  (/\ alg = "Playfair" /\ pc = "transformed"
   /\ \E i \in 1..Len(Processed) : ~InMatrix(Matrix, Processed[i]))
    => ~out.ok /\ out.err \in {"TypeError", "IndexError"}

\* C8 witness: a full 5x5 matrix and a pair with one character in the matrix
\* and one outside it, transformed
C8_Witness ==
  /\ alg = "Playfair" /\ pc = "transformed" /\ IsFiveByFive(Matrix)
  /\ Len(Processed) = 2
  /\ \E i, j \in 1..2 :
       InMatrix(Matrix, Processed[i]) /\ ~InMatrix(Matrix, Processed[j])
  /\ ~out.ok

\* C9: constructing PlayfairCipher or Substitution with an empty key, or a key
\* without a letter, fails with an exception instead of yielding an instance.
C9_EmptyKeyRejected ==
  (alg \in {"Playfair", "Substitution"} /\ pc # "new" /\ NoLetter(key))
    => inst.status = "error"

\* the pair the digraph rule gives for matrix positions (r1, c1), (r2, c2)
RulePair(m, r1, c1, r2, c2) ==
  IF r1 = r2 THEN <<m[r1 + 1][((c1 + 1) % 5) + 1], m[r2 + 1][((c2 + 1) % 5) + 1]>>
  ELSE IF c1 = c2 THEN <<m[((r1 + 1) % 5) + 1][c1 + 1], m[((r2 + 1) % 5) + 1][c2 + 1]>>
  ELSE <<m[r1 + 1][c2 + 1], m[r2 + 1][c1 + 1]>>

====
